---- MODULE Spec2Model ----
(***************************************************************************)
(* semdag: typed, optionally reversible morphisms (src/index.ts).          *)
(*                                                                         *)
(* The library is a set of pure functions over immutable objects.  The    *)
(* model keeps the objects a caller has built in a heap (a sequence; an    *)
(* object's reference is its index), the Type descriptors in a table, and  *)
(* the outcome of the most recent library call in `last`.                  *)
(*                                                                         *)
(* Values are the integers 0..MaxVal.  An exception thrown by a            *)
(* caller-supplied function is the outcome Raise, which propagates through *)
(* every library function (none of them has a try/catch).                  *)
(***************************************************************************)
EXTENDS Integers, Sequences, FiniteSets, TLC

VARIABLES types, heap, last

vars == <<types, heap, last>>

\* ---------------------------------------------------------------- bounds
MaxVal == 2
MaxMorphisms == 3

Values == 0..MaxVal
Raise == -1

\* ------------------------------------------------- caller-supplied parts
\* The forward / backward functions a caller hands to the constructors.
\* inc/dec are mutually inverse, neg is its own inverse, parse rejects 0
\* by throwing (as a schema.safeParse-and-throw inverse does).
Fns == {"inc", "dec", "neg", "parse"}

\* Calling something that is not a function throws as well.
Apply(fn, v) ==
  CASE fn = "inc" -> (v + 1) % (MaxVal + 1)
    [] fn = "dec" -> (v + MaxVal) % (MaxVal + 1)
    [] fn = "neg" -> MaxVal - v
    [] fn = "parse" -> IF v = 0 THEN Raise ELSE v
    [] OTHER -> Raise

\* Type descriptors built by the caller.  Descriptor 2 is constructed
\* independently of 1 with the same name and a schema of the same shape
\* (another schema object); descriptor 3 is a different descriptor that
\* reuses descriptor 1's schema object.
TypeIds == 1..3

TypeTable ==
  <<[name |-> "String", schema |-> [ref |-> 1, shape |-> "string"], equals |-> "strict"],
    [name |-> "String", schema |-> [ref |-> 2, shape |-> "string"], equals |-> "strict"],
    [name |-> "Text", schema |-> [ref |-> 1, shape |-> "string"], equals |-> "tolerant"]>>

\* Type.equals: strict identity, or equality up to a tolerance.
Equals(t, a, b) ==
  IF types[t].equals = "strict" THEN a = b
  ELSE (IF a > b THEN a - b ELSE b - a) < 2

\* The constructor calls the caller makes: (source, target, forward[, backward]).
BasicArgs == {<<3, 1, "parse">>, <<1, 3, "inc">>}

ReversibleArgs ==
  {<<1, 1, "inc", "dec">>, <<1, 3, "neg", "neg">>, <<3, 2, "inc", "parse">>}

\* ------------------------------------------------------------- morphisms
NoFn == "undefined"
NoRef == 0
NoType == 0

Refs == 1..Len(heap)

\* reversibleMorphism(source, target, forward, backward)
reversibleMorphism(source, target, forward, backward) ==
  [kind |-> "reversible", map |-> forward, source |-> source, target |-> target,
   inverse |-> backward, first |-> NoRef, second |-> NoRef]

\* morphism(source, target, forward)
morphism(source, target, forward) ==
  [kind |-> "basic", map |-> forward, source |-> source, target |-> target,
   inverse |-> NoFn, first |-> NoRef, second |-> NoRef]

\* The object { kind: 'unknown' }: a kind tag that is none of the three
\* variants and no other field (map, source and target are undefined).
foreignMorphism ==
  [kind |-> "unknown", map |-> NoFn, source |-> NoType, target |-> NoType,
   inverse |-> NoFn, first |-> NoRef, second |-> NoRef]

\* Reading .schema of an undefined target or source throws a TypeError
\* before compose compares anything.
Malformed(h, first, second) ==
  h[first].target = NoType \/ h[second].source = NoType

SchemaTypeError == <<"TypeError: cannot read 'schema' of undefined">>

\* Variant: schemas compared by structure instead of by reference.
IncompatibleByShape(h, first, second) ==
  types[h[first].target].schema.shape # types[h[second].source].schema.shape

\* compose's guard: the two schema objects are compared by reference.
Incompatible(h, first, second) ==
  types[h[first].target].schema.ref # types[h[second].source].schema.ref

ComposeError(h, first, second) ==
  <<"Cannot compose morphisms: Incompatible types. First morphism target type: ",
    types[h[first].target].name,
    " Second morphism source type: ",
    types[h[second].source].name>>

\* Variant: the composed morphism takes its ends from the wrong components.
ComposedInnerEnds(h, first, second) ==
  [kind |-> "composed", map |-> "closure", source |-> h[second].source,
   target |-> h[first].target, inverse |-> NoFn, first |-> first, second |-> second]

\* The object compose returns; its map is the closure over first and second.
Composed(h, first, second) ==
  [kind |-> "composed", map |-> "closure", source |-> h[first].source,
   target |-> h[second].target, inverse |-> NoFn, first |-> first, second |-> second]

RECURSIVE MapOf(_, _, _)

\* Variant: the closure applies second before first.
ComposedMapSecondFirst(h, m, a) == MapOf(h, h[m].first, MapOf(h, h[m].second, a))

\* Variant: the closure returns first's result without applying second.
ComposedMapDropsSecond(h, m, a) == MapOf(h, h[m].first, a)

\* The closure (a) => second.map(first.map(a)) of a composed morphism.
ComposedMap(h, m, a) == MapOf(h, h[m].second, MapOf(h, h[m].first, a))

\* m.map(a)
MapOf(h, m, a) ==
  IF a = Raise THEN Raise
  ELSE IF h[m].kind = "composed" THEN ComposedMap(h, m, a)
  ELSE Apply(h[m].map, a)

\* Variant: a composed morphism counts as reversible too.
isReversibleOrComposed(h, m) == h[m].kind \in {"reversible", "composed"}

\* isReversible(m)
isReversible(h, m) == h[m].kind = "reversible"

\* inverseOf(m)
inverseOf(h, m) == IF h[m].kind = "reversible" THEN h[m].inverse ELSE NoFn

\* ---------------------------------------------------------------- outcomes
Returned(ret, calls) == [status |-> "returned", ret |-> ret, calls |-> calls]
Raised(calls) == [status |-> "raised", ret |-> <<>>, calls |-> calls]

Success(v) == [success |-> TRUE, value |-> v, error |-> <<>>]
Failure(e) == [success |-> FALSE, value |-> Raise, error |-> e]

\* Variant: the round trip is compared with the target's equality.
checkReversibilityTargetEquals(h, m, testValue) ==
  LET inverse == inverseOf(h, m) IN
  IF inverse = NoFn THEN Returned(FALSE, <<>>)
  ELSE LET forward == MapOf(h, m, testValue) IN
       IF forward = Raise THEN Raised(<<"map">>)
       ELSE LET backward == Apply(inverse, forward) IN
            IF backward = Raise THEN Raised(<<"map", "inverse">>)
            ELSE Returned(Equals(h[m].target, testValue, backward),
                          <<"map", "inverse", "equals">>)

\* checkReversibility(m, testValue)
checkReversibility(h, m, testValue) ==
  LET inverse == inverseOf(h, m) IN
  IF inverse = NoFn THEN Returned(FALSE, <<>>)
  ELSE LET forward == MapOf(h, m, testValue) IN
       IF forward = Raise THEN Raised(<<"map">>)
       ELSE LET backward == Apply(inverse, forward) IN
            IF backward = Raise THEN Raised(<<"map", "inverse">>)
            ELSE Returned(Equals(h[m].source, testValue, backward),
                          <<"map", "inverse", "equals">>)

WithinError(h, c) ==
  <<"Morphism \"", types[h[c].source].name, " -> ", types[h[c].target].name,
    "\" within composition is not reversible">>

\* Variant: the inverses are applied left to right.
reverseComposedLeftToRight(h, m, value) ==
  IF ~isReversible(h, h[m].second) THEN Returned(Failure(WithinError(h, h[m].second)), <<>>)
  ELSE IF ~isReversible(h, h[m].first) THEN Returned(Failure(WithinError(h, h[m].first)), <<>>)
  ELSE LET firstReversed == Apply(h[h[m].first].inverse, value) IN
       IF firstReversed = Raise THEN Raised(<<"first.inverse">>)
       ELSE LET secondReversed == Apply(h[h[m].second].inverse, firstReversed) IN
            IF secondReversed = Raise THEN Raised(<<"first.inverse", "second.inverse">>)
            ELSE Returned(Success(secondReversed), <<"first.inverse", "second.inverse">>)

\* Variant: the first component's reversibility is checked before the second's.
reverseComposedFirstChecked(h, m, value) ==
  IF ~isReversible(h, h[m].first) THEN Returned(Failure(WithinError(h, h[m].first)), <<>>)
  ELSE IF ~isReversible(h, h[m].second) THEN Returned(Failure(WithinError(h, h[m].second)), <<>>)
  ELSE LET secondReversed == Apply(h[h[m].second].inverse, value) IN
       IF secondReversed = Raise THEN Raised(<<"second.inverse">>)
       ELSE LET firstReversed == Apply(h[h[m].first].inverse, secondReversed) IN
            IF firstReversed = Raise THEN Raised(<<"second.inverse", "first.inverse">>)
            ELSE Returned(Success(firstReversed), <<"second.inverse", "first.inverse">>)

\* _reverseComposed(m, value)
reverseComposed(h, m, value) ==
  IF ~isReversible(h, h[m].second) THEN Returned(Failure(WithinError(h, h[m].second)), <<>>)
  ELSE IF ~isReversible(h, h[m].first) THEN Returned(Failure(WithinError(h, h[m].first)), <<>>)
  ELSE LET secondReversed == Apply(h[h[m].second].inverse, value) IN
       IF secondReversed = Raise THEN Raised(<<"second.inverse">>)
       ELSE LET firstReversed == Apply(h[h[m].first].inverse, secondReversed) IN
            IF firstReversed = Raise THEN Raised(<<"second.inverse", "first.inverse">>)
            ELSE Returned(Success(firstReversed), <<"second.inverse", "first.inverse">>)

\* Variant: the error names the morphism's ends in the wrong order.
NotReversibleErrorSwapped(h, m) ==
  <<"Morphism \"", types[h[m].target].name, " -> ", types[h[m].source].name,
    "\" is not reversible">>

NotReversibleError(h, m) ==
  <<"Morphism \"", types[h[m].source].name, " -> ", types[h[m].target].name,
    "\" is not reversible">>

\* reverse(m, value)
reverse(h, m, value) ==
  CASE h[m].kind = "reversible" ->
         LET r == Apply(h[m].inverse, value) IN
         IF r = Raise THEN Raised(<<"inverse">>) ELSE Returned(Success(r), <<"inverse">>)
    [] h[m].kind = "composed" -> reverseComposed(h, m, value)
    [] h[m].kind = "basic" -> Returned(Failure(NotReversibleError(h, m)), <<>>)
    [] OTHER -> Returned(Failure(<<"Unknown morphism kind">>), <<>>)

\* ------------------------------------------------------------------ state
Note(op, m, m2, arg, outcome) ==
  [op |-> op, m |-> m, m2 |-> m2, arg |-> arg, status |-> outcome.status,
   ret |-> outcome.ret, calls |-> outcome.calls]

Init ==
  /\ types = TypeTable
  /\ heap = <<>>
  /\ last = Note("none", NoRef, NoRef, Raise, Returned(<<>>, <<>>))

CallMorphism ==
  \E a \in BasicArgs :
    /\ Len(heap) < MaxMorphisms
    /\ heap' = Append(heap, morphism(a[1], a[2], a[3]))
    /\ last' = Note("morphism", Len(heap) + 1, NoRef, Raise, Returned(Len(heap) + 1, <<>>))
    /\ UNCHANGED types

CallReversibleMorphism ==
  \E a \in ReversibleArgs :
    /\ Len(heap) < MaxMorphisms
    /\ heap' = Append(heap, reversibleMorphism(a[1], a[2], a[3], a[4]))
    /\ last' = Note("reversibleMorphism", Len(heap) + 1, NoRef, Raise,
                    Returned(Len(heap) + 1, <<>>))
    /\ UNCHANGED types

CallForeign ==
  /\ Len(heap) < MaxMorphisms
  /\ heap' = Append(heap, foreignMorphism)
  /\ last' = Note("foreign", Len(heap) + 1, NoRef, Raise, Returned(Len(heap) + 1, <<>>))
  /\ UNCHANGED types

\* Variant: compose also rewrites its first argument's target in place.
ComposeCallInPlace(first, second) ==
  IF Malformed(heap, first, second)
  THEN /\ last' = [Note("compose", first, second, Raise, Raised(<<>>))
                     EXCEPT !.ret = SchemaTypeError]
       /\ UNCHANGED <<types, heap>>
  ELSE IF Incompatible(heap, first, second)
  THEN /\ last' = [Note("compose", first, second, Raise, Raised(<<>>))
                     EXCEPT !.ret = ComposeError(heap, first, second)]
       /\ UNCHANGED <<types, heap>>
  ELSE /\ heap' = Append([heap EXCEPT ![first].target = heap[second].target],
                         Composed(heap, first, second))
       /\ last' = Note("compose", first, second, Raise, Returned(Len(heap) + 1, <<>>))
       /\ UNCHANGED types

\* compose(first, second): throws, or returns a new object.
ComposeCall(first, second) ==
  IF Malformed(heap, first, second)
  THEN /\ last' = [Note("compose", first, second, Raise, Raised(<<>>))
                     EXCEPT !.ret = SchemaTypeError]
       /\ UNCHANGED <<types, heap>>
  ELSE IF Incompatible(heap, first, second)
  THEN /\ last' = [Note("compose", first, second, Raise, Raised(<<>>))
                     EXCEPT !.ret = ComposeError(heap, first, second)]
       /\ UNCHANGED <<types, heap>>
  ELSE /\ heap' = Append(heap, Composed(heap, first, second))
       /\ last' = Note("compose", first, second, Raise, Returned(Len(heap) + 1, <<>>))
       /\ UNCHANGED types

CallCompose ==
  \E first \in Refs, second \in Refs :
    /\ IF Malformed(heap, first, second) THEN TRUE
       ELSE IF Incompatible(heap, first, second) THEN TRUE
       ELSE Len(heap) < MaxMorphisms
    /\ ComposeCall(first, second)

CallMap ==
  \E m \in Refs, a \in Values :
    /\ last' = Note("map", m, NoRef, a,
                    LET b == MapOf(heap, m, a) IN
                    IF b = Raise THEN Raised(<<"map">>) ELSE Returned(b, <<"map">>))
    /\ UNCHANGED <<types, heap>>

CallIsReversible ==
  \E m \in Refs :
    /\ last' = Note("isReversible", m, NoRef, Raise, Returned(isReversible(heap, m), <<>>))
    /\ UNCHANGED <<types, heap>>

CallInverseOf ==
  \E m \in Refs :
    /\ last' = Note("inverseOf", m, NoRef, Raise, Returned(inverseOf(heap, m), <<>>))
    /\ UNCHANGED <<types, heap>>

CallCheckReversibility ==
  \E m \in Refs, v \in Values :
    /\ last' = Note("checkReversibility", m, NoRef, v, checkReversibility(heap, m, v))
    /\ UNCHANGED <<types, heap>>

CallReverse ==
  \E m \in Refs, v \in Values :
    /\ last' = Note("reverse", m, NoRef, v, reverse(heap, m, v))
    /\ UNCHANGED <<types, heap>>

Next ==
  \/ CallMorphism
  \/ CallReversibleMorphism
  \/ CallForeign
  \/ CallCompose
  \/ CallMap
  \/ CallIsReversible
  \/ CallInverseOf
  \/ CallCheckReversibility
  \/ CallReverse

Spec == Init /\ [][Next]_vars

\* ------------------------------------------- regrouping a three-stage pipeline
\* The morphisms the constructors can return for the caller's arguments.
LeafObjects ==
  {morphism(a[1], a[2], a[3]) : a \in BasicArgs}
    \cup {reversibleMorphism(a[1], a[2], a[3], a[4]) : a \in ReversibleArgs}
    \cup {foreignMorphism}

\* Three morphisms f, g, h (references 1, 2, 3) have been constructed.
InitPipeline ==
  /\ types = TypeTable
  /\ \E f \in LeafObjects, g \in LeafObjects, h \in LeafObjects : heap = <<f, g, h>>
  /\ last = Note("none", NoRef, NoRef, Raise, Returned(<<>>, <<>>))

\* The constructed morphisms a morphism is composed of, left to right.
RECURSIVE Stages(_)
Stages(m) ==
  IF heap[m].kind = "composed" THEN Stages(heap[m].first) \o Stages(heap[m].second)
  ELSE <<m>>

\* compose(first, second) joins consecutive stages of f, g, h and has not
\* been made before.
JoinsPipeline(first, second) ==
  /\ Stages(first) \o Stages(second) \in {<<1, 2>>, <<2, 3>>, <<1, 2, 3>>}
  /\ ~\E c \in Refs : heap[c].kind = "composed" /\ heap[c].first = first
                                                /\ heap[c].second = second

CallComposePipeline ==
  \E first \in Refs, second \in Refs :
    /\ JoinsPipeline(first, second)
    /\ ComposeCall(first, second)

NextPipeline ==
  \/ CallComposePipeline
  \/ CallMap

SpecPipeline == InitPipeline /\ [][NextPipeline]_vars

TypeOK ==
  /\ types = TypeTable
  /\ \A m \in Refs :
       /\ heap[m].kind \in {"basic", "reversible", "composed", "unknown"}
       /\ heap[m].kind = "unknown" =>
            heap[m].source = NoType /\ heap[m].target = NoType /\ heap[m].map = NoFn
       /\ heap[m].kind # "unknown" =>
            /\ heap[m].source \in TypeIds /\ heap[m].target \in TypeIds
            /\ heap[m].map \in Fns \cup {"closure"}
       /\ heap[m].inverse \in Fns \cup {NoFn}

\* =================================================================== claims
\* The outcome recorded for the last call, as a value or Raise.
LastValue == IF last.status = "raised" THEN Raise ELSE last.ret

\* A reversible morphism whose inverse undoes its map on every value.
TrueInverse(m) ==
  /\ heap[m].kind = "reversible"
  /\ \A v \in Values :
       /\ Apply(heap[m].map, v) # Raise
       /\ Apply(heap[m].inverse, Apply(heap[m].map, v)) = v

\* A composed morphism whose two immediate components are both reversible.
ComposedOfReversibles(m) ==
  /\ heap[m].kind = "composed"
  /\ heap[heap[m].first].kind = "reversible"
  /\ heap[heap[m].second].kind = "reversible"

\* f.inverse(g.inverse(v)) for the components f, g of c, or Raise.
InverseRightToLeft(c, v) ==
  LET x == Apply(heap[heap[c].second].inverse, v) IN
  IF x = Raise THEN Raise ELSE Apply(heap[heap[c].first].inverse, x)

\* C1: compose(f, g).map(a) equals g.map(f.map(a)) for every f, g that
\* compose and every input a: first is applied before second.  Stated for
\* the morphism a successful compose call has just returned and for every
\* map call on a composed morphism.
C1_ComposeMapsFirstThenSecond ==
  /\ (last.op = "compose" /\ last.status = "returned") =>
       \A a \in Values :
         MapOf(heap, last.ret, a) = MapOf(heap, last.m2, MapOf(heap, last.m, a))
  /\ (last.op = "map" /\ heap[last.m].kind = "composed") =>
       LastValue = MapOf(heap, heap[last.m].second,
                         MapOf(heap, heap[last.m].first, last.arg))

\* A map call on a composed morphism whose components do not commute on the input.
C1_Witness ==
  /\ last.op = "map" /\ heap[last.m].kind = "composed" /\ last.status = "returned"
  /\ last.ret # MapOf(heap, heap[last.m].first, MapOf(heap, heap[last.m].second, last.arg))

\* m is one of the three morphism variants (it has a source and a target Type).
IsMorphism(m) == heap[m].kind \in {"basic", "reversible", "composed"}

\* C2 as stated: for morphisms f and g, compose(f, g) raises whenever
\* f.target and g.source are not the very same Type descriptor object.
C2_RaisesOnDistinctTypeObjects ==
  (last.op = "compose" /\ IsMorphism(last.m) /\ IsMorphism(last.m2)
     /\ heap[last.m].target # heap[last.m2].source) =>
    last.status = "raised"

\* C2 amended: for morphisms f and g, compose(f, g) raises 'Cannot compose
\* morphisms ...' naming both Type names whenever f.target.schema and
\* g.source.schema are not the very same schema object, whatever the names,
\* equals functions and shapes are (also when the two schemas are
\* structurally identical); it raises in no other case.
C2_RaisesOnDistinctSchemaObjects ==
  (last.op = "compose" /\ IsMorphism(last.m) /\ IsMorphism(last.m2)) =>
    IF types[heap[last.m].target].schema.ref # types[heap[last.m2].source].schema.ref
    THEN /\ last.status = "raised"
         /\ last.ret = <<"Cannot compose morphisms: Incompatible types. First morphism target type: ",
                         types[heap[last.m].target].name,
                         " Second morphism source type: ",
                         types[heap[last.m2].source].name>>
    ELSE last.status = "returned"

\* compose raised on two descriptors with equal names and structurally identical schemas.
C2_Witness ==
  /\ last.op = "compose" /\ last.status = "raised"
  /\ IsMorphism(last.m) /\ IsMorphism(last.m2)
  /\ types[heap[last.m].target].name = types[heap[last.m2].source].name
  /\ types[heap[last.m].target].schema.shape = types[heap[last.m2].source].schema.shape

\* C3: every composed morphism was built from a compatible pair (first.target
\* and second.source carry the same schema object), has first.source as its
\* source and second.target as its target, and holds exactly the two
\* morphisms passed to compose; compose of two morphisms does not raise when
\* f.target and g.source are the same Type object.
C3_ComposedKeepsOuterEnds ==
  /\ \A m \in Refs : heap[m].kind = "composed" =>
       /\ heap[m].first \in 1..(m - 1) /\ heap[m].second \in 1..(m - 1)
       /\ types[heap[heap[m].first].target].schema.ref
            = types[heap[heap[m].second].source].schema.ref
       /\ heap[m].source = heap[heap[m].first].source
       /\ heap[m].target = heap[heap[m].second].target
  /\ (last.op = "compose" /\ last.status = "returned") =>
       /\ last.ret = Len(heap)
       /\ heap[last.ret].kind = "composed"
       /\ heap[last.ret].first = last.m /\ heap[last.ret].second = last.m2
  /\ (last.op = "compose" /\ IsMorphism(last.m) /\ IsMorphism(last.m2)
        /\ heap[last.m].target = heap[last.m2].source) =>
       last.status = "returned"

\* compose returned a morphism whose source and target are different Types
\* and whose inner ends are the same Type object.
C3_Witness ==
  /\ last.op = "compose" /\ last.status = "returned"
  /\ heap[last.ret].source # heap[last.ret].target
  /\ heap[last.m].target = heap[last.m2].source
  /\ heap[last.m].target # heap[last.m].source

\* C4: for c = compose(f, g) with f and g reversible, reverse(c, v) returns
\* {success: true, value: f.inverse(g.inverse(v))} (second's inverse first);
\* and when both inverses are true inverses, reverse(c, c.map(a)) returns
\* success with value a.
C4_ReverseComposedRightToLeft ==
  (last.op = "reverse" /\ ComposedOfReversibles(last.m)) =>
    /\ InverseRightToLeft(last.m, last.arg) # Raise =>
         /\ last.status = "returned"
         /\ last.ret = Success(InverseRightToLeft(last.m, last.arg))
    /\ (TrueInverse(heap[last.m].first) /\ TrueInverse(heap[last.m].second)) =>
         \A a \in Values :
           MapOf(heap, last.m, a) = last.arg =>
             (last.status = "returned" /\ last.ret = Success(a))

\* reverse succeeded on a composition of two true-inverse reversibles whose
\* inverses do not commute on the value.
C4_Witness ==
  /\ last.op = "reverse" /\ ComposedOfReversibles(last.m)
  /\ TrueInverse(heap[last.m].first) /\ TrueInverse(heap[last.m].second)
  /\ last.status = "returned" /\ last.ret.success
  /\ \E a \in Values : MapOf(heap, last.m, a) = last.arg /\ last.ret.value = a
  /\ LET y == Apply(heap[heap[last.m].first].inverse, last.arg) IN
     y = Raise \/ Apply(heap[heap[last.m].second].inverse, y) # last.ret.value

\* The number of compose(., m) steps by which c was built from m:
\* 0 when c is m itself, -1 when c is no such chain.
RECURSIVE ChainDepth(_, _)
ChainDepth(c, m) ==
  IF c = m THEN 0
  ELSE IF heap[c].kind = "composed" /\ heap[c].second = m
       THEN LET d == ChainDepth(heap[c].first, m) IN IF d < 0 THEN -1 ELSE d + 1
       ELSE -1

\* C5: for a chain c0 = m, c(i+1) = compose(c(i), m) of depth >= 2 over a
\* reversible m with a true inverse, reverse(c, c.map(a)) returns success
\* with value a.
C5_NestedChainReverses ==
  (last.op = "reverse"
     /\ \E m \in Refs : TrueInverse(m) /\ ChainDepth(last.m, m) >= 2) =>
    \A a \in Values :
      MapOf(heap, last.m, a) = last.arg =>
        (last.status = "returned" /\ last.ret = Success(a))

\* m is reversible, or composed with both immediate components reversible.
ShallowReversible(m) ==
  heap[m].kind = "reversible" \/ ComposedOfReversibles(m)

\* C6: reverse(m, v) returns a success Result if and only if m is
\* reversible or composed of two reversible immediate components; in every
\* other case it returns a failure Result ('Unknown morphism kind' for an
\* unrecognized kind).
C6_SuccessIffShallowKinds ==
  last.op = "reverse" =>
    IF ShallowReversible(last.m)
    THEN last.status = "returned" /\ last.ret.success
    ELSE /\ last.status = "returned" /\ ~last.ret.success
         /\ heap[last.m].kind = "unknown" => last.ret.error = <<"Unknown morphism kind">>

\* C7: reverse never raises: it returns a Result for every m and v, and when
\* an inverse applied while reversing a composition of two reversible
\* morphisms throws, the Result has success = false.
C7_ReverseNeverRaises ==
  last.op = "reverse" =>
    /\ last.status = "returned"
    /\ (ComposedOfReversibles(last.m) /\ InverseRightToLeft(last.m, last.arg) = Raise) =>
         ~last.ret.success

\* C8: for a basic m, reverse(m, v) returns {success: false, error:
\* 'Morphism "<source name> -> <target name>" is not reversible'} with m's
\* own Type names, and calls none of the caller's functions.
C8_BasicNotReversible ==
  (last.op = "reverse" /\ heap[last.m].kind = "basic") =>
    /\ last.status = "returned"
    /\ last.ret = [success |-> FALSE, value |-> Raise,
                   error |-> <<"Morphism \"", types[heap[last.m].source].name, " -> ",
                               types[heap[last.m].target].name, "\" is not reversible">>]
    /\ last.calls = <<>>

\* reverse was called on a basic morphism whose two Type names differ.
C8_Witness ==
  /\ last.op = "reverse" /\ heap[last.m].kind = "basic"
  /\ types[heap[last.m].source].name # types[heap[last.m].target].name
  /\ last.status = "returned" /\ ~last.ret.success

\* C9: for a reversible m, checkReversibility(m, v) returns
\* m.source.equals(v, m.inverse(m.map(v))); for any other m it returns false
\* without calling map, inverse or equals, composed morphisms included.
C9_CheckReversibilityDirectOnly ==
  last.op = "checkReversibility" =>
    IF heap[last.m].kind = "reversible"
    THEN LET forward == Apply(heap[last.m].map, last.arg)
             backward == IF forward = Raise THEN Raise
                         ELSE Apply(heap[last.m].inverse, forward)
         IN IF backward = Raise THEN last.status = "raised"
            ELSE /\ last.status = "returned"
                 /\ last.ret = Equals(heap[last.m].source, last.arg, backward)
    ELSE last.status = "returned" /\ last.ret = FALSE /\ last.calls = <<>>

\* checkReversibility returned true for a reversible morphism only because
\* its source Type's equality accepts a round trip that changed the value.
C9_Witness ==
  /\ last.op = "checkReversibility" /\ heap[last.m].kind = "reversible"
  /\ last.status = "returned" /\ last.ret = TRUE
  /\ Apply(heap[last.m].inverse, Apply(heap[last.m].map, last.arg)) # last.arg

\* m is built, to any depth, only from reversible morphisms with true inverses.
RECURSIVE BuiltFromTrueInverses(_)
BuiltFromTrueInverses(m) ==
  IF heap[m].kind = "composed"
  THEN BuiltFromTrueInverses(heap[m].first) /\ BuiltFromTrueInverses(heap[m].second)
  ELSE TrueInverse(m)

\* C10: for a composed c built only from reversible morphisms with true
\* inverses, checkReversibility(c, v) returns true.
C10_CheckReversibilityComposed ==
  (last.op = "checkReversibility" /\ heap[last.m].kind = "composed"
     /\ BuiltFromTrueInverses(last.m)) =>
    (last.status = "returned" /\ last.ret = TRUE)

\* C11: isReversible(m) is true exactly when m.kind is 'reversible', and
\* inverseOf(m) is m's stored inverse function exactly then and undefined
\* otherwise; both answer "not reversible" for every composed morphism, also
\* for one built from reversible components on which reverse succeeds.
C11_ReversibleTagOnly ==
  /\ last.op = "isReversible" =>
       /\ last.status = "returned"
       /\ last.ret = (heap[last.m].kind = "reversible")
       /\ heap[last.m].kind = "composed" => last.ret = FALSE
  /\ last.op = "inverseOf" =>
       /\ last.status = "returned"
       /\ last.ret = IF heap[last.m].kind = "reversible" THEN heap[last.m].inverse
                     ELSE "undefined"
       /\ heap[last.m].kind = "composed" => last.ret = "undefined"

\* isReversible answered false for a composition of two reversible
\* morphisms that reverse does reverse.
C11_Witness ==
  /\ last.op = "isReversible" /\ ComposedOfReversibles(last.m)
  /\ last.ret = FALSE
  /\ \E v \in Values :
       LET r == reverse(heap, last.m, v) IN r.status = "returned" /\ r.ret.success

\* C12: no operation changes an object that already exists: every step
\* leaves the Type descriptors and every morphism built so far as they
\* were; only a constructor or a successful compose adds one object, and
\* the object compose adds refers to its two (unchanged) inputs.
C12_NoObjectIsMutated ==
  [][/\ types' = types
     /\ Len(heap') >= Len(heap)
     /\ \A m \in 1..Len(heap) : heap'[m] = heap[m]
     /\ last'.op \in {"map", "isReversible", "inverseOf", "checkReversibility", "reverse"}
          => heap' = heap
     /\ (last'.op = "compose" /\ last'.status = "raised") => heap' = heap
     /\ (last'.op = "compose" /\ last'.status = "returned") =>
          /\ Len(heap') = Len(heap) + 1
          /\ last'.m \in 1..Len(heap) /\ last'.m2 \in 1..Len(heap)
          /\ heap'[Len(heap')].first = last'.m
          /\ heap'[Len(heap')].second = last'.m2]_vars

\* compose has just returned a new morphism built from two different
\* existing objects whose ends differ.
C12_Witness ==
  /\ last.op = "compose" /\ last.status = "returned"
  /\ last.m # last.m2
  /\ heap[last.m].target # heap[last.m2].target
  /\ heap[last.ret].first = last.m /\ heap[last.ret].second = last.m2

\* The error text _reverseComposed produces about component c.
NamesComponent(c) ==
  <<"Morphism \"", types[heap[c].source].name, " -> ", types[heap[c].target].name,
    "\" within composition is not reversible">>

\* The immediate components of the composed morphism m.
Sides(m) == {heap[m].first, heap[m].second}

\* m is composed and at least one immediate component is not reversible.
HasNonReversibleSide(m) ==
  /\ heap[m].kind = "composed"
  /\ \E c \in Sides(m) : heap[c].kind # "reversible"

\* C13 as stated: reversing a composed morphism with a non-reversible
\* immediate component fails with an error from which the non-reversible
\* side can be told: the error fits a component, and every component it
\* fits is non-reversible (also when both components carry the same Type
\* names).
C13_ErrorTellsTheSide ==
  (last.op = "reverse" /\ HasNonReversibleSide(last.m)) =>
    /\ last.status = "returned" /\ ~last.ret.success
    /\ \E c \in Sides(last.m) : last.ret.error = NamesComponent(c)
    /\ \A c \in Sides(last.m) :
         last.ret.error = NamesComponent(c) => heap[c].kind # "reversible"

\* C13 amended: the failure's error carries the source and target Type
\* names of a non-reversible immediate component: second's when second is
\* not reversible, otherwise first's.  It tells that side from the other
\* one whenever the two components' (source name, target name) pairs differ.
C13_ErrorNamesTypesOfNonReversibleSide ==
  (last.op = "reverse" /\ HasNonReversibleSide(last.m)) =>
    LET named == IF heap[heap[last.m].second].kind # "reversible"
                 THEN heap[last.m].second ELSE heap[last.m].first
    IN /\ last.status = "returned" /\ ~last.ret.success
       /\ heap[named].kind # "reversible"
       /\ last.ret.error =
            <<"Morphism \"", types[heap[named].source].name, " -> ",
              types[heap[named].target].name, "\" within composition is not reversible">>
       /\ NamesComponent(heap[last.m].first) # NamesComponent(heap[last.m].second) =>
            \A c \in Sides(last.m) :
              last.ret.error = NamesComponent(c) => heap[c].kind # "reversible"

\* reverse failed on a composition whose first component alone is not
\* reversible and is named differently from the second.
C13_Witness ==
  /\ last.op = "reverse" /\ heap[last.m].kind = "composed"
  /\ heap[heap[last.m].first].kind # "reversible"
  /\ heap[heap[last.m].second].kind = "reversible"
  /\ NamesComponent(heap[last.m].first) # NamesComponent(heap[last.m].second)
  /\ last.status = "returned" /\ last.ret.error = NamesComponent(heap[last.m].first)

\* l is compose(compose(f, g), h) for some f, g, h.
LeftGrouped(l) ==
  heap[l].kind = "composed" /\ heap[heap[l].first].kind = "composed"

\* l is compose(compose(f, g), h) and r is compose(f, compose(g, h)).
Regrouped(l, r, f, g, h) ==
  /\ LeftGrouped(l)
  /\ heap[heap[l].first].first = f /\ heap[heap[l].first].second = g
  /\ heap[l].second = h
  /\ heap[r].kind = "composed" /\ heap[heap[r].second].kind = "composed"
  /\ heap[r].first = f
  /\ heap[heap[r].second].first = g /\ heap[heap[r].second].second = h

\* f, g, h are morphisms; f.target and g.source are the same Type, and so
\* are g.target and h.source.
Chained(f, g, h) ==
  /\ IsMorphism(f) /\ IsMorphism(g) /\ IsMorphism(h)
  /\ heap[f].target = heap[g].source
  /\ heap[g].target = heap[h].source

\* C14: for morphisms f, g, h with f.target and g.source the same Type and g.target
\* and h.source the same Type, compose(compose(f, g), h) and
\* compose(f, compose(g, h)) succeed, have the same source and target, and
\* their maps agree on every input, both giving h.map(g.map(f.map(a))).
C14_RegroupingAgrees ==
  /\ \A l \in Refs : LeftGrouped(l) =>
       LET f == heap[heap[l].first].first
           g == heap[heap[l].first].second
           h == heap[l].second
       IN \A r \in Refs :
            (Regrouped(l, r, f, g, h) /\ Chained(f, g, h)) =>
              /\ heap[l].source = heap[r].source /\ heap[l].source = heap[f].source
              /\ heap[l].target = heap[r].target /\ heap[l].target = heap[h].target
              /\ \A a \in Values :
                   /\ MapOf(heap, l, a) = MapOf(heap, r, a)
                   /\ MapOf(heap, l, a)
                        = MapOf(heap, h, MapOf(heap, g, MapOf(heap, f, a)))
  /\ (last.op = "compose" /\ IsMorphism(last.m) /\ IsMorphism(last.m2)
        /\ heap[last.m].kind # "composed" /\ heap[last.m2].kind # "composed"
        /\ heap[last.m].target = heap[last.m2].source) => last.status = "returned"
  /\ (last.op = "compose" /\ heap[last.m].kind = "composed"
        /\ Chained(heap[last.m].first, heap[last.m].second, last.m2)) =>
       last.status = "returned"
  /\ (last.op = "compose" /\ heap[last.m2].kind = "composed"
        /\ Chained(last.m, heap[last.m2].first, heap[last.m2].second)) =>
       last.status = "returned"

\* Both groupings of three chained morphisms exist, and the order of the
\* three maps matters on some input.
C14_Witness ==
  \E l \in Refs, r \in Refs :
    /\ Regrouped(l, r, 1, 2, 3) /\ Chained(1, 2, 3)
    /\ \E a \in Values :
         /\ MapOf(heap, l, a) # Raise
         /\ MapOf(heap, l, a) # MapOf(heap, 1, MapOf(heap, 2, MapOf(heap, 3, a)))
====
